---------------------------- MODULE Spec2Model ----------------------------
(***************************************************************************)
(* Motion-controlled rhythm game: the GameScene per-frame update           *)
(* (src/index.tsx), the score/combo/health handlers of App (src/App.tsx)   *)
(* and the hand state written by useMediaPipe.                             *)
(*                                                                         *)
(* Units.  Lengths are in hundredths of a world unit (0.8 is 80), times of *)
(* the audio clock in twentieths of a second (0.05 s), wall-clock times in *)
(* milliseconds, velocities in hundredths of a world unit per second,      *)
(* normalized landmark coordinates in thousandths.  With these units every *)
(* threshold of the code (1.5, 1.0, 0.8, 5, 0.3, 0.001 s) is an integer.   *)
(***************************************************************************)
EXTENDS Integers, Sequences, FiniteSets, TLC

\* ------------------------------------------------------------------ units
TimeUnitsPerSec == 20
LenUnits == 100

\* -------------------------------------------------------------- constants
SPAWN_Z == 0 - 30 * LenUnits
PLAYER_Z == 0
MISS_Z == 5 * LenUnits
NOTE_SPEED == 10 * LenUnits
LANE_WIDTH == 80
LANE_X_POSITIONS == << 0 - 120, 0 - 40, 40, 120 >>
LAYER_Y_POSITIONS == << 80, 160, 240 >>

\* CutDirection enum values
UP == 0
DOWN == 1
LEFT == 2
RIGHT == 3
ANY == 4

DIRECTION_VECTORS(d) ==
    CASE d = UP -> << 0, 1, 0 >>
      [] d = DOWN -> << 0, 0 - 1, 0 >>
      [] d = LEFT -> << 0 - 1, 0, 0 >>
      [] d = RIGHT -> << 1, 0, 0 >>
      [] OTHER -> << 0, 0, 0 >>

\* judgement thresholds of the frame callback
HitWindowBefore == 150
HitWindowAfter == 100
HitRadius == 80
MinSpeed == 150
\* 0.3 as the fraction MinDotNum / MinDotDen
MinDotNum == 3
MinDotDen == 10

\* score handler constants
BasePoints == 150
ScorePenalty == 50
GoodHeal == 2
BadDamage == 5
MissDamage == 15
MaxHealth == 100

\* an absent vector (null in the code) and an absent label
Null == << >>
NoLabel == "none"

\* ----------------------------------------------------------------- bounds
MaxTime == 14
MaxFrames == 2
MaxPendingPlay == 1
\* notes of the chart of SpecScore, and events of one of its frames
MaxNotes == 12
MaxBatch == 2
\* detection results processed in a run of SpecHands
MaxSamples == 4
\* runs of the useMediaPipe effect (StrictMode: mount, cleanup, mount)
MaxMounts == 2
\* animation frames requested by the detection loop
MaxRaf == 3

\* --------------------------------------------------------- vector helpers
Max(a, b) == IF a >= b THEN a ELSE b
Min(a, b) == IF a <= b THEN a ELSE b
Abs(a) == IF a >= 0 THEN a ELSE 0 - a

\* integer division rounding toward zero
Quot(a, b) == IF a >= 0 THEN a \div b ELSE 0 - ((0 - a) \div b)

Dot(u, v) == u[1] * v[1] + u[2] * v[2] + u[3] * v[3]
Sub(u, v) == << u[1] - v[1], u[2] - v[2], u[3] - v[3] >>
LengthSq(v) == Dot(v, v)
DistanceSq(u, v) == LengthSq(Sub(u, v))


\* ------------------------------------------------------------------ chart
\* A note of the chart: time of arrival at the player, lane, layer, hand and
\* cut direction.  The run-time flags hit, missed, hitTime are kept in the
\* variables of the same names, indexed like the chart.
Note(t, lane, layer, hand, dir) ==
    [time |-> t, lineIndex |-> lane, lineLayer |-> layer, type |-> hand,
     cutDirection |-> dir]

\* Charts handed to GameScene: sorted by time, as generateDemoChart returns
\* them (notes.sort by time).  ChartPair has two notes for different hands at
\* one time (the "double hits" of the generator) followed by a note that is
\* beyond the look-ahead at time 0; ChartStream has notes for one hand close
\* together and a note with a required direction.
ChartPair ==
    << Note(1, 1, 0, "left", ANY), Note(1, 2, 0, "right", ANY),
       Note(62, 1, 0, "left", ANY) >>
ChartStream ==
    << Note(1, 1, 0, "left", ANY), Note(2, 1, 0, "left", DOWN),
       Note(3, 2, 0, "right", UP) >>
\* eight notes at once for one hand: enough misses to empty the health bar
ChartBarrage == [i \in 1..8 |-> Note(1, 1, 0, "left", ANY)]
Charts == { ChartPair, ChartStream, ChartBarrage }

IsSorted(c) == \A i, j \in 1..Len(c) : i < j => c[i].time <= c[j].time

\* --------------------------------------------------- hand state estimator
\* mapHandToWorld: x, y in thousandths, result in hundredths of a unit.
GAME_X_RANGE == 5
GAME_Y_RANGE == 35
Y_OFFSET == 80

mapHandToWorld(x, y) ==
    LET worldX == Quot((500 - x) * GAME_X_RANGE, 10)
        worldY == Quot((1000 - y) * GAME_Y_RANGE, 100)
                    - Quot(GAME_Y_RANGE * 10, 2) + Y_OFFSET
        worldZ == 0 - Max(0, Quot(worldY * 2, 10))
    IN  << worldX, Max(10, worldY), worldZ >>

\* The landmarks the code reads: 0 wrist, 8/12/16/20 finger tips,
\* 6/10/14/18 the PIP joints; each a point << x, y, z >> in thousandths.
FingerJoints == << [tip |-> 8, pip |-> 6], [tip |-> 12, pip |-> 10],
                   [tip |-> 16, pip |-> 14], [tip |-> 20, pip |-> 18] >>

CurlMargin == 20

\* checkGrip of the hook: a finger is curled when its tip is lower on the
\* image (larger y) than its PIP joint by more than 0.02; all four needed.
checkGrip(landmarks) ==
    LET curledFingers ==
          Cardinality({ f \in 1..4 :
              landmarks[FingerJoints[f].tip][2]
                > landmarks[FingerJoints[f].pip][2] + CurlMargin })
    IN  curledFingers = 4

\* Squared distance of two landmarks, as checkGrip of WebcamPreview sums it
SquaredDistance(p, q) ==
    (p[1] - q[1]) * (p[1] - q[1]) + (p[2] - q[2]) * (p[2] - q[2])
      + (p[3] - q[3]) * (p[3] - q[3])

\* checkGrip of WebcamPreview: a finger is curled when its tip is closer to
\* the wrist than its PIP joint; three curled fingers are enough.
checkGripPreview(landmarks) ==
    LET wrist == landmarks[0]
        curledFingers ==
          Cardinality({ f \in 1..4 :
              SquaredDistance(landmarks[FingerJoints[f].tip], wrist)
                < SquaredDistance(landmarks[FingerJoints[f].pip], wrist) })
    IN  curledFingers >= 3

\* lerpVectors(v1, v2, 0.6), kept to the hundredth
LERP_NUM == 6
LERP_DEN == 10
Lerp1(a, b) == a + Quot((b - a) * LERP_NUM, LERP_DEN)
lerpVectors(v1, v2) ==
    << Lerp1(v1[1], v2[1]), Lerp1(v1[2], v2[2]), Lerp1(v1[3], v2[3]) >>

\* subVectors(a, b).divideScalar(deltaTime), deltaTime given in milliseconds
Velocity(a, b, deltaMs) ==
    << Quot((a[1] - b[1]) * 1000, deltaMs), Quot((a[2] - b[2]) * 1000, deltaMs),
       Quot((a[3] - b[3]) * 1000, deltaMs) >>

MinDeltaMs == 1

\* The loop over results.landmarks: the last detection labelled for a side
\* wins; a detection without handedness is skipped.  results is a sequence
\* of [categoryName, landmarks] with categoryName "Right", "Left" or NoLabel.
RECURSIVE RawSide(_, _, _)
RawSide(results, right, i) ==
    IF i = 0 THEN [pos |-> Null, grip |-> FALSE]
    ELSE IF results[i].categoryName # NoLabel
            /\ (results[i].categoryName = "Right") = right
         THEN [pos |-> mapHandToWorld(results[i].landmarks[8][1],
                                      results[i].landmarks[8][2]),
               grip |-> checkGrip(results[i].landmarks)]
         ELSE RawSide(results, right, i - 1)

\* faulty variant: a side without a detection keeps its previous position
UpdateSideHold(raw, pos, vel, last, deltaMs) ==
    IF raw.pos # Null
    THEN LET newPos == IF pos # Null THEN lerpVectors(pos, raw.pos) ELSE raw.pos
         IN  [pos  |-> newPos,
              vel  |-> IF pos # Null /\ deltaMs > MinDeltaMs
                       THEN Velocity(newPos, pos, deltaMs) ELSE vel,
              last |-> IF pos # Null THEN pos ELSE newPos,
              grip |-> raw.grip]
    ELSE [pos |-> pos, vel |-> vel, last |-> last, grip |-> FALSE]

\* processResults for one side: pos/vel/grip/last are the side's fields.
\* faulty variant: a side that comes back after an absence is blended with
\* the position on record from before the absence
UpdateSideSmoothFirst(raw, pos, vel, last, deltaMs) ==
    IF raw.pos # Null
    THEN LET prev == IF pos # Null THEN pos ELSE last
             newPos == IF prev # Null THEN lerpVectors(prev, raw.pos)
                       ELSE raw.pos
         IN  [pos  |-> newPos,
              vel  |-> IF pos # Null /\ deltaMs > MinDeltaMs
                       THEN Velocity(newPos, pos, deltaMs) ELSE vel,
              last |-> IF pos # Null THEN pos ELSE newPos,
              grip |-> raw.grip]
    ELSE [pos |-> Null, vel |-> vel, last |-> last, grip |-> FALSE]

\* faulty variant: the velocity is computed without the deltaTime > 0.001
\* test
UpdateSideNoThreshold(raw, pos, vel, last, deltaMs) ==
    IF raw.pos # Null
    THEN LET newPos == IF pos # Null THEN lerpVectors(pos, raw.pos) ELSE raw.pos
         IN  [pos  |-> newPos,
              vel  |-> IF pos # Null
                       THEN Velocity(newPos, pos, deltaMs) ELSE vel,
              last |-> IF pos # Null THEN pos ELSE newPos,
              grip |-> raw.grip]
    ELSE [pos |-> Null, vel |-> vel, last |-> last, grip |-> FALSE]

UpdateSide(raw, pos, vel, last, deltaMs) ==
    IF raw.pos # Null
    THEN LET newPos == IF pos # Null THEN lerpVectors(pos, raw.pos) ELSE raw.pos
         IN  [pos  |-> newPos,
              vel  |-> IF pos # Null /\ deltaMs > MinDeltaMs
                       THEN Velocity(newPos, pos, deltaMs) ELSE vel,
              last |-> IF pos # Null THEN pos ELSE newPos,
              grip |-> raw.grip]
    ELSE [pos |-> Null, vel |-> vel, last |-> last, grip |-> FALSE]

\* faulty variant: the update of the right side is left for a later turn,
\* so that the state holds the left side of this result with the right side
\* of the one before
processResultsTorn(s, results, now) ==
    LET deltaMs == now - s.lastTimestamp
        l == UpdateSide(RawSide(results, FALSE, Len(results)),
                        s.left, s.leftVelocity, s.lastLeft, deltaMs)
    IN  [left |-> l.pos, right |-> s.right,
         lastLeft |-> l.last, lastRight |-> s.lastRight,
         leftVelocity |-> l.vel, rightVelocity |-> s.rightVelocity,
         leftGripping |-> l.grip, rightGripping |-> s.rightGripping,
         lastTimestamp |-> now]

processResults(s, results, now) ==
    LET deltaMs == now - s.lastTimestamp
        l == UpdateSide(RawSide(results, FALSE, Len(results)),
                        s.left, s.leftVelocity, s.lastLeft, deltaMs)
        r == UpdateSide(RawSide(results, TRUE, Len(results)),
                        s.right, s.rightVelocity, s.lastRight, deltaMs)
    IN  [left |-> l.pos, right |-> r.pos,
         lastLeft |-> l.last, lastRight |-> r.last,
         leftVelocity |-> l.vel, rightVelocity |-> r.vel,
         leftGripping |-> l.grip, rightGripping |-> r.grip,
         lastTimestamp |-> now]

InitHands ==
    [left |-> Null, right |-> Null, lastLeft |-> Null, lastRight |-> Null,
     leftVelocity |-> << 0, 0, 0 >>, rightVelocity |-> << 0, 0, 0 >>,
     leftGripping |-> FALSE, rightGripping |-> FALSE, lastTimestamp |-> 0]


\* ------------------------------------------------------------------ state
VARIABLES
    chart,              \* the chart prop of GameScene (DEMO_CHART), immutable
    hit,                \* note.hit, per chart index
    missed,             \* note.missed, per chart index
    hitTime,            \* note.hitTime, per chart index; NoTime when undefined
    activeNotesRef,     \* GameScene: chart indices of the active notes
    nextNoteIndexRef,   \* GameScene: number of chart notes already activated
    handPositionsRef,   \* useMediaPipe: the hand state
    lastResultsRef,     \* useMediaPipe: << >> for null, else << results >>
    isCameraReady,      \* useMediaPipe: state set by onloadeddata
    frames,             \* number of detection frames processed so far
    gameStatus,         \* App state
    score,              \* App state
    combo,              \* App state
    multiplier,         \* App state
    health,             \* App state
    audioTime,          \* audioRef.current.currentTime
    audioPlaying,       \* audio element is playing (not paused)
    audioEnded,         \* audioRef.current.ended
    pendingPlay,        \* startGame calls waiting for audio.play() to settle
    pendingEndGame,     \* setTimeout(() => endGame(false), 0) not yet run
    frameParity,        \* parity of the number of useFrame callbacks run
    log,                \* events emitted since the session started
    isActive,           \* useMediaPipe effect: isActive of each effect run
    setup,              \* useMediaPipe effect: where each run's setup stands
    landmarkerRef,      \* useMediaPipe: 0 for null, else the landmarker held
    landmarkers,        \* HandLandmarker objects: "none", "open", "closed"
    streams,            \* MediaStreams: "none", "live", "stopped"
    srcObject,          \* video.srcObject: 0 for null, else the stream
    onloadeddata,       \* video.onloadeddata: 0, else the effect run that set it
    loadedPending,      \* a loadeddata event of the video is due
    requestRef,         \* useMediaPipe: id of the last requestAnimationFrame
    rafQueue,           \* animation frame callbacks requested and not yet run
    error               \* useMediaPipe: error state

vars == << chart, hit, missed, hitTime, activeNotesRef, nextNoteIndexRef,
           handPositionsRef, lastResultsRef, isCameraReady, frames,
           gameStatus, score, combo,
           multiplier, health, audioTime, audioPlaying, audioEnded,
           pendingPlay, pendingEndGame, frameParity, log, isActive, setup,
           landmarkerRef, landmarkers, streams, srcObject, onloadeddata,
           loadedPending, requestRef, rafQueue, error >>

simVars == << hit, missed, hitTime, activeNotesRef, nextNoteIndexRef >>
appVars == << gameStatus, score, combo, multiplier, health >>
audioVars == << audioTime, audioPlaying, audioEnded >>
\* the effect of useMediaPipe, the resources it holds and the video element
hookVars == << isActive, setup, landmarkerRef, landmarkers, streams, srcObject,
               onloadeddata, loadedPending, requestRef, rafQueue, error >>
handVars == << handPositionsRef, lastResultsRef, frames, hookVars >>

NoTime == 0 - 1

\* ------------------------------------------------ GameScene frame callback
\* spawnAheadTime = Math.abs(SPAWN_Z - PLAYER_Z) / NOTE_SPEED, in time units
spawnAheadTime == (Abs(SPAWN_Z - PLAYER_Z) * TimeUnitsPerSec) \div NOTE_SPEED

\* faulty variant: the depth moves at a speed of 4, not at NOTE_SPEED, while
\* the lookahead is computed from NOTE_SPEED
currentZSlow(note, time) ==
    PLAYER_Z - Quot((note.time - time) * 4 * LenUnits, TimeUnitsPerSec)

\* currentZ = PLAYER_Z - (note.time - time) * NOTE_SPEED
currentZ(note, time) ==
    PLAYER_Z - Quot((note.time - time) * NOTE_SPEED, TimeUnitsPerSec)

\* faulty variant: activation with a strict comparison: a note exactly one lookahead
\* away is left for a later frame
RECURSIVE ActivateStrict(_, _, _, _)
ActivateStrict(c, next, active, time) ==
    IF next < Len(c) /\ c[next + 1].time - spawnAheadTime < time
    THEN ActivateStrict(c, next + 1, Append(active, next + 1), time)
    ELSE [next |-> next, active |-> active]

\* faulty variant: activation that recomputes the cursor from the playback time
ActivateRescan(c, next, active, time) ==
    LET due == Cardinality({ n \in 1..Len(c) : c[n].time - spawnAheadTime <= time })
    IN  [next |-> due,
         active |-> active \o [k \in 1..Max(0, due - next) |-> next + k]]

\* faulty variant: activation that puts a note at the head of the active list
RECURSIVE ActivatePrepend(_, _, _, _)
ActivatePrepend(c, next, active, time) ==
    IF next < Len(c) /\ c[next + 1].time - spawnAheadTime <= time
    THEN ActivatePrepend(c, next + 1, << next + 1 >> \o active, time)
    ELSE [next |-> next, active |-> active]

\* the while loop that moves the cursor and pushes notes on the active list
RECURSIVE Activate(_, _, _, _)
Activate(c, next, active, time) ==
    IF next < Len(c) /\ c[next + 1].time - spawnAheadTime <= time
    THEN Activate(c, next + 1, Append(active, next + 1), time)
    ELSE [next |-> next, active |-> active]

\* activeNotesRef.current.splice(i, 1)
Splice(seq, i) == SubSeq(seq, 1, i - 1) \o SubSeq(seq, i + 1, Len(seq))

\* faulty variant: goodCut from the speed alone, whatever the cut direction
GoodCutSpeedOnly(note, handVel) ==
    ~(LengthSq(handVel) < MinSpeed * MinSpeed)

\* the direction and speed test of a hit: goodCut
GoodCut(note, handVel) ==
    LET speedSq == LengthSq(handVel)
        d == Dot(handVel, DIRECTION_VECTORS(note.cutDirection))
        \* vecB.copy(handVel).normalize().dot(requiredDir) < 0.3
        dotLow == \/ d <= 0
                  \/ d * d * MinDotDen * MinDotDen
                       < MinDotNum * MinDotNum * speedSq
    IN  IF note.cutDirection # ANY
        THEN ~(dotLow \/ speedSq < MinSpeed * MinSpeed)
        ELSE ~(speedSq < MinSpeed * MinSpeed)

InHitWindow(z) == z > PLAYER_Z - HitWindowBefore /\ z < PLAYER_Z + HitWindowAfter

\* faulty variant: the miss line itself counts as past it
PastMissLineAt(z) == z >= MISS_Z

PastMissLine(z) == z > MISS_Z

NotePos(note, z) ==
    << LANE_X_POSITIONS[note.lineIndex + 1], LAYER_Y_POSITIONS[note.lineLayer + 1], z >>

WithinReach(handPos, notePos) ==
    DistanceSq(handPos, notePos) < HitRadius * HitRadius

\* faulty variant: whichever hand is seen
HandPosOfAny(note, hands) ==
    IF hands.left # Null THEN hands.left ELSE hands.right

\* the hand a note reads: position and velocity of note.type's side
HandPosOf(note, hands) == IF note.type = "left" THEN hands.left ELSE hands.right
HandVelOf(note, hands) ==
    IF note.type = "left" THEN hands.leftVelocity ELSE hands.rightVelocity

\* faulty variant: JudgeNote without the hit/missed guard and without the splice:
\* a resolved note stays on the list and is judged again
JudgeNoteKeep(c, st, i, time, hands) ==
    LET n == st.active[i]
        note == c[n]
        z == currentZ(note, time)
        handPos == HandPosOf(note, hands)
    IN  IF PastMissLine(z)
        THEN [st EXCEPT !.missed[n] = TRUE,
                        !.events = Append(@, [note |-> n, kind |-> "miss",
                                              goodCut |-> FALSE])]
        ELSE IF InHitWindow(z) /\ handPos # Null
                /\ WithinReach(handPos, NotePos(note, z))
        THEN [st EXCEPT !.hit[n] = TRUE,
                        !.hitTime[n] = time,
                        !.events = Append(@, [note |-> n, kind |-> "hit",
                                   goodCut |-> GoodCut(note, HandVelOf(note, hands))])]
        ELSE st

\* faulty variant: the hit test passes when the required hand is absent
JudgeNoteBlind(c, st, i, time, hands) ==
    LET n == st.active[i]
        note == c[n]
        z == currentZ(note, time)
        handPos == HandPosOf(note, hands)
    IN  IF st.hit[n] \/ st.missed[n] THEN st
        ELSE IF PastMissLine(z)
        THEN [st EXCEPT !.missed[n] = TRUE,
                        !.events = Append(@, [note |-> n, kind |-> "miss",
                                              goodCut |-> FALSE]),
                        !.active = Splice(@, i)]
        ELSE IF InHitWindow(z)
                /\ (handPos = Null \/ WithinReach(handPos, NotePos(note, z)))
        THEN [st EXCEPT !.hit[n] = TRUE,
                        !.hitTime[n] = time,
                        !.events = Append(@, [note |-> n, kind |-> "hit",
                                   goodCut |-> GoodCut(note, HandVelOf(note, hands))]),
                        !.active = Splice(@, i)]
        ELSE st

\* One pass of the body of the for loop, for position i of the active list.
\* st = [hit, missed, hitTime, active, events].
JudgeNote(c, st, i, time, hands) ==
    LET n == st.active[i]
        note == c[n]
        z == currentZ(note, time)
        handPos == HandPosOf(note, hands)
    IN  IF st.hit[n] \/ st.missed[n] THEN st
        ELSE IF PastMissLine(z)
        THEN [st EXCEPT !.missed[n] = TRUE,
                        !.events = Append(@, [note |-> n, kind |-> "miss",
                                              goodCut |-> FALSE]),
                        !.active = Splice(@, i)]
        ELSE IF InHitWindow(z) /\ handPos # Null
                /\ WithinReach(handPos, NotePos(note, z))
        THEN [st EXCEPT !.hit[n] = TRUE,
                        !.hitTime[n] = time,
                        !.events = Append(@, [note |-> n, kind |-> "hit",
                                   goodCut |-> GoodCut(note, HandVelOf(note, hands))]),
                        !.active = Splice(@, i)]
        ELSE st

\* for (let i = activeNotesRef.current.length - 1; i >= 0; i--)
RECURSIVE Judge(_, _, _, _, _)
Judge(c, st, i, time, hands) ==
    IF i = 0 THEN st
    ELSE Judge(c, JudgeNote(c, st, i, time, hands), i - 1, time, hands)

\* faulty variant: the judgement loop before the activation loop
FrameJudgeFirst(c, h, m, ht, active, next, time, hands) ==
    LET st == Judge(c, [hit |-> h, missed |-> m, hitTime |-> ht,
                        active |-> active, events |-> << >>],
                    Len(active), time, hands)
        a == Activate(c, next, st.active, time)
    IN  [hit |-> st.hit, missed |-> st.missed, hitTime |-> st.hitTime,
         active |-> a.active, next |-> a.next, events |-> st.events]

\* The part of the frame callback after the early returns: activation, then
\* the judgement loop.  Result: the new refs, flags and the events emitted.
Frame(c, h, m, ht, active, next, time, hands) ==
    LET a == Activate(c, next, active, time)
        st == Judge(c, [hit |-> h, missed |-> m, hitTime |-> ht,
                        active |-> a.active, events |-> << >>],
                    Len(a.active), time, hands)
    IN  [hit |-> st.hit, missed |-> st.missed, hitTime |-> st.hitTime,
         active |-> st.active, next |-> a.next, events |-> st.events]


\* ------------------------------------------------------- App: the handlers
\* The step function of the combo inside the setCombo updater of handleNoteHit
MultiplierFor(newCombo) ==
    IF newCombo > 30 THEN 8
    ELSE IF newCombo > 20 THEN 4
    ELSE IF newCombo > 10 THEN 2
    ELSE 1

\* faulty variant: the handlers without Math.min / Math.max and without the
\* return 0 of the miss
ReduceEventNoClamp(acc, e, first, captured, eager) ==
    IF e.kind = "hit" /\ e.goodCut
    THEN LET newCombo == acc.combo + 1
         IN  [acc EXCEPT !.combo = newCombo,
                         !.direct = IF first /\ eager
                                    THEN MultiplierFor(newCombo) ELSE @,
                         !.nested = IF first /\ eager
                                    THEN @ ELSE MultiplierFor(newCombo),
                         !.score = @ + BasePoints * captured,
                         !.health = @ + GoodHeal]
    ELSE IF e.kind = "hit"
    THEN [acc EXCEPT !.combo = 0,
                     !.direct = 1,
                     !.score = @ - ScorePenalty,
                     !.health = @ - BadDamage]
    ELSE [acc EXCEPT !.combo = 0,
                     !.direct = 1,
                     !.score = @ - ScorePenalty,
                     !.health = @ - MissDamage,
                     !.timers = IF acc.health - MissDamage <= 0 THEN @ + 1 ELSE @]

\* What handleNoteHit / handleNoteMiss do to the App state for the events of
\* one frame.  The handlers only queue state updates (setCombo, setMultiplier,
\* setScore, setHealth); React applies the queue of each state in call order
\* when it renders after the frame.  Hence
\*   - `captured` is the multiplier handleNoteHit closed over (useCallback
\*     with [multiplier]): the value of the last render, the same for every
\*     hit of the frame;
\*   - setMultiplier(1) of a bad hit or a miss is queued when the handler
\*     runs; the setMultiplier inside the setCombo updater is queued when the
\*     updater runs, which is during the render (after every update the
\*     handlers queued), except for the first update of the batch when React
\*     computes it eagerly (`eager`);
\*   - the setTimeout of the setHealth updater is set when the updater runs.
\* acc = [score, combo, health, direct, nested, timers]: direct is the last
\* multiplier queued by a handler, nested the last queued by an updater
\* during the render (0: none).
ReduceEvent(acc, e, first, captured, eager) ==
    IF e.kind = "hit" /\ e.goodCut
    THEN LET newCombo == acc.combo + 1
         IN  [acc EXCEPT !.combo = newCombo,
                         !.direct = IF first /\ eager
                                    THEN MultiplierFor(newCombo) ELSE @,
                         !.nested = IF first /\ eager
                                    THEN @ ELSE MultiplierFor(newCombo),
                         !.score = @ + BasePoints * captured,
                         !.health = Min(MaxHealth, @ + GoodHeal)]
    ELSE IF e.kind = "hit"
    THEN [acc EXCEPT !.combo = 0,
                     !.direct = 1,
                     !.score = Max(0, @ - ScorePenalty),
                     !.health = Max(0, @ - BadDamage)]
    ELSE [acc EXCEPT !.combo = 0,
                     !.direct = 1,
                     !.score = Max(0, @ - ScorePenalty),
                     !.health = IF @ - MissDamage <= 0 THEN 0 ELSE @ - MissDamage,
                     !.timers = IF acc.health - MissDamage <= 0 THEN @ + 1 ELSE @]

RECURSIVE ReduceFrom(_, _, _, _, _)
ReduceFrom(acc, events, k, captured, eager) ==
    IF k > Len(events) THEN acc
    ELSE ReduceFrom(ReduceEvent(acc, events[k], k = 1, captured, eager),
                    events, k + 1, captured, eager)

\* The App state after the render that follows a frame with these events.
ApplyEvents(events, s, c, m, h, eager) ==
    LET acc == ReduceFrom([score |-> s, combo |-> c, health |-> h,
                           direct |-> 0, nested |-> 0, timers |-> 0],
                          events, 1, m, eager)
    IN  [score |-> acc.score, combo |-> acc.combo, health |-> acc.health,
         multiplier |-> IF acc.nested # 0 THEN acc.nested
                        ELSE IF acc.direct # 0 THEN acc.direct ELSE m,
         timers |-> acc.timers]

\* faulty variant: React may compute the first updater eagerly in any state
EagerChoicesAny(c) == BOOLEAN

\* Whether React may run the first setCombo updater of a frame when the
\* handler calls setCombo, rather than during the render.  React does so only
\* when the App component has no update left over from its last render, that
\* is when the last batch of updates changed no state and the render bailed
\* out.  A batch with a good hit changes the combo, and a batch of bad hits
\* and misses changes it unless it is 0 already: React has the choice only
\* when the combo is 0.
EagerChoices(c) == IF c = 0 THEN BOOLEAN ELSE { FALSE }


\* ------------------------------------------------------ detection results
LandmarkIds == { 0, 6, 8, 10, 12, 14, 16, 18, 20 }
TipIds == { 8, 12, 16, 20 }

\* A landmark set with the index fingertip at (x, y); the fingers are curled
\* (tips below their PIP joints) when fist, extended otherwise.
Landmarks(x, y, fist) ==
    [k \in LandmarkIds |->
        IF k = 0 THEN << x, y + 200, 0 >>
        ELSE IF k \in TipIds THEN << x, y, 0 >>
        ELSE << x, IF fist THEN y - 50 ELSE y + 50, 0 >>]

\* A landmark set with index, middle and ring finger curled and the little
\* finger extended.
LandmarksThree(x, y) ==
    [k \in LandmarkIds |->
        IF k = 0 THEN << x, y + 200, 0 >>
        ELSE IF k \in TipIds THEN << x, y, 0 >>
        ELSE << x, IF k = 18 THEN y + 50 ELSE y - 50, 0 >>]

Hand(label, x, y, fist) ==
    [categoryName |-> label, landmarks |-> Landmarks(x, y, fist)]

\* Detection results of a frame: no hand; the left hand alone with its
\* fingertip between lanes 1 and 2 at the lowest layer (500, 500), in reach of
\* the notes there; the left hand away from every note (500, 300) with the
\* right hand, a fist, at (500, 500).
FrameResults ==
    { << >>,
      << Hand("Left", 500, 500, FALSE) >>,
      << Hand("Left", 500, 300, FALSE), Hand("Right", 500, 500, TRUE) >> }

\* elapsed wall-clock time between two processed frames, in milliseconds
FrameDeltas == { 50 }

\* the runs of the effect of useMediaPipe; each makes at most one landmarker
\* and acquires at most one stream, which carry the number of the run
Mounts == 1..MaxMounts

\* error state null
NoError == "null"

\* ------------------------------------------------------------------- Init
InitWith(c) ==
    /\ chart = c
    /\ hit = [i \in 1..Len(chart) |-> FALSE]
    /\ missed = [i \in 1..Len(chart) |-> FALSE]
    /\ hitTime = [i \in 1..Len(chart) |-> NoTime]
    /\ activeNotesRef = << >>
    /\ nextNoteIndexRef = 0
    /\ handPositionsRef = InitHands
    /\ lastResultsRef = << >>
    /\ isCameraReady = FALSE
    /\ frames = 0
    /\ gameStatus = "LOADING"
    /\ score = 0
    /\ combo = 0
    /\ multiplier = 1
    /\ health = MaxHealth
    /\ audioTime = 0
    /\ audioPlaying = FALSE
    /\ audioEnded = FALSE
    /\ pendingPlay = 0
    /\ pendingEndGame = 0
    /\ frameParity = 0
    /\ log = << >>
    /\ isActive = [i \in Mounts |-> FALSE]
    /\ setup = [i \in Mounts |-> "unmounted"]
    /\ landmarkerRef = 0
    /\ landmarkers = [i \in Mounts |-> "none"]
    /\ streams = [i \in Mounts |-> "none"]
    /\ srcObject = 0
    /\ onloadeddata = 0
    /\ loadedPending = FALSE
    /\ requestRef = 0
    /\ rafQueue = << >>
    /\ error = NoError

Init == \E c \in Charts : InitWith(c)

\* ---------------------------------------------------------------- actions
\* video.onloadeddata: setIsCameraReady(true) and the first predictWebcam
CameraReady ==
    /\ ~isCameraReady
    /\ isCameraReady' = TRUE
    /\ UNCHANGED << chart, simVars, handVars, appVars, audioVars, pendingPlay,
                    pendingEndGame, frameParity, log >>

\* faulty variant: the effect without its isCameraReady test
LoadingEffectUnguarded ==
    /\ gameStatus = "LOADING"
    /\ gameStatus' = "IDLE"
    /\ UNCHANGED << chart, simVars, handVars, isCameraReady, score, combo,
                    multiplier, health, audioVars, pendingPlay, pendingEndGame,
                    frameParity, log >>

\* useEffect: LOADING -> IDLE once the camera is ready
LoadingEffect ==
    /\ gameStatus = "LOADING"
    /\ isCameraReady
    /\ gameStatus' = "IDLE"
    /\ UNCHANGED << chart, simVars, handVars, isCameraReady, score, combo,
                    multiplier, health, audioVars, pendingPlay, pendingEndGame,
                    frameParity, log >>

\* predictWebcam: one detection frame.  detectForVideo either throws (the
\* catch leaves the hand state alone) or returns results for processResults.
predictWebcam ==
    /\ isCameraReady
    /\ frames < MaxFrames
    /\ \/ UNCHANGED << handPositionsRef, lastResultsRef, frames >>
       \/ \E results \in FrameResults, d \in FrameDeltas :
            /\ lastResultsRef' = << results >>
            /\ handPositionsRef' =
                 processResults(handPositionsRef, results,
                                handPositionsRef.lastTimestamp + d)
            /\ frames' = frames + 1
    /\ UNCHANGED << chart, simVars, isCameraReady, appVars, audioVars,
                    pendingPlay, pendingEndGame, frameParity, log, hookVars >>

\* faulty variant: startGame without the reset of the notes' flags
startGameKeepFlags ==
    /\ gameStatus = "IDLE"
    /\ isCameraReady
    /\ pendingPlay < MaxPendingPlay
    /\ score' = 0
    /\ combo' = 0
    /\ multiplier' = 1
    /\ health' = MaxHealth
    /\ audioTime' = 0
    /\ audioEnded' = FALSE
    /\ pendingPlay' = pendingPlay + 1
    /\ log' = << >>
    /\ UNCHANGED << chart, simVars, handVars, isCameraReady, gameStatus,
                    audioPlaying, pendingEndGame, frameParity >>

\* startGame up to the await of audio.play(); the button is shown in IDLE
startGame ==
    /\ gameStatus = "IDLE"
    /\ isCameraReady
    /\ pendingPlay < MaxPendingPlay
    /\ score' = 0
    /\ combo' = 0
    /\ multiplier' = 1
    /\ health' = MaxHealth
    /\ hit' = [i \in 1..Len(chart) |-> FALSE]
    /\ missed' = [i \in 1..Len(chart) |-> FALSE]
    /\ audioTime' = 0
    /\ audioEnded' = FALSE
    /\ pendingPlay' = pendingPlay + 1
    /\ log' = << >>
    /\ UNCHANGED << chart, hitTime, activeNotesRef, nextNoteIndexRef, handVars,
                    isCameraReady, gameStatus, audioPlaying, pendingEndGame,
                    frameParity >>

\* audio.play() resolved: setGameStatus(PLAYING).  The audio element resolves
\* all its pending play promises together, when playback starts.
PlayResolved ==
    /\ pendingPlay > 0
    /\ pendingPlay' = 0
    /\ audioPlaying' = TRUE
    /\ gameStatus' = "PLAYING"
    /\ UNCHANGED << chart, simVars, handVars, isCameraReady, score, combo,
                    multiplier, health, audioTime, audioEnded, pendingEndGame,
                    frameParity, log >>

\* faulty variant: setGameStatus(PLAYING) after the try/catch, so that it
\* runs after a rejected play() as well
PlayRejectedContinues ==
    /\ pendingPlay > 0
    /\ pendingPlay' = pendingPlay - 1
    /\ gameStatus' = "PLAYING"
    /\ UNCHANGED << chart, simVars, handVars, isCameraReady, score, combo,
                    multiplier, health, audioVars, pendingEndGame,
                    frameParity, log >>

\* audio.play() rejected: the catch of startGame
PlayRejected ==
    /\ pendingPlay > 0
    /\ pendingPlay' = pendingPlay - 1
    /\ UNCHANGED << chart, simVars, handVars, isCameraReady, appVars, audioVars,
                    pendingEndGame, frameParity, log >>

\* the audio element plays: its clock moves on, and the song ends at MaxTime
AudioAdvance ==
    /\ audioPlaying
    /\ audioTime < MaxTime
    /\ audioTime' = audioTime + 1
    /\ UNCHANGED << chart, simVars, handVars, isCameraReady, appVars,
                    audioPlaying, audioEnded, pendingPlay, pendingEndGame, frameParity, log >>

AudioEnd ==
    /\ audioPlaying
    /\ audioTime = MaxTime
    /\ audioEnded' = TRUE
    /\ audioPlaying' = FALSE
    /\ UNCHANGED << chart, simVars, handVars, isCameraReady, appVars, audioTime,
                    pendingPlay, pendingEndGame, frameParity, log >>

NextBatch == IF log = << >> THEN 1 ELSE log[Len(log)].batch + 1

\* The log keeps, with each event, the frame that emitted it (batch) and
\* whether the note was activated in that same frame (fresh).
Stamp(events, b, cursor) ==
    [k \in 1..Len(events) |->
        [note |-> events[k].note, kind |-> events[k].kind,
         goodCut |-> events[k].goodCut, batch |-> b,
         fresh |-> events[k].note > cursor]]

\* faulty variant: the frame callback without its gameStatus test
TickUnguarded ==
    /\ gameStatus # "LOADING"
    /\ frameParity' = 1 - frameParity
    /\ IF audioEnded
       THEN /\ gameStatus' = "VICTORY"
            /\ audioPlaying' = FALSE
            /\ UNCHANGED << chart, simVars, handVars, isCameraReady, score,
                            combo, multiplier, health, audioTime, audioEnded,
                            pendingPlay, pendingEndGame, log >>
       ELSE LET f == Frame(chart, hit, missed, hitTime, activeNotesRef,
                           nextNoteIndexRef, audioTime, handPositionsRef)
            IN  /\ hit' = f.hit
                /\ missed' = f.missed
                /\ hitTime' = f.hitTime
                /\ activeNotesRef' = f.active
                /\ nextNoteIndexRef' = f.next
                /\ log' = log \o Stamp(f.events, NextBatch, nextNoteIndexRef)
                /\ \E eager \in EagerChoices(combo) :
                     LET a == ApplyEvents(f.events, score, combo, multiplier,
                                          health, eager)
                     IN  /\ score' = a.score
                         /\ combo' = a.combo
                         /\ multiplier' = a.multiplier
                         /\ health' = a.health
                         /\ pendingEndGame' = pendingEndGame + a.timers
                /\ UNCHANGED << chart, handVars, isCameraReady, gameStatus,
                                audioVars, pendingPlay >>

\* faulty variant: the frame callback looks at audio.ended after the note
\* loop instead of before the activation loop
TickEndLast ==
    /\ gameStatus # "LOADING"
    /\ frameParity' = 1 - frameParity
    /\ IF gameStatus # "PLAYING"
       THEN UNCHANGED << chart, simVars, handVars, isCameraReady, appVars,
                         audioVars, pendingPlay, pendingEndGame, log >>
       ELSE LET f == Frame(chart, hit, missed, hitTime, activeNotesRef,
                           nextNoteIndexRef, audioTime, handPositionsRef)
            IN  /\ hit' = f.hit
                /\ missed' = f.missed
                /\ hitTime' = f.hitTime
                /\ activeNotesRef' = f.active
                /\ nextNoteIndexRef' = f.next
                /\ log' = log \o Stamp(f.events, NextBatch, nextNoteIndexRef)
                /\ \E eager \in EagerChoices(combo) :
                     LET a == ApplyEvents(f.events, score, combo, multiplier,
                                          health, eager)
                     IN  /\ score' = a.score
                         /\ combo' = a.combo
                         /\ multiplier' = a.multiplier
                         /\ health' = a.health
                         /\ pendingEndGame' = pendingEndGame + a.timers
                /\ gameStatus' = IF audioEnded THEN "VICTORY" ELSE gameStatus
                /\ audioPlaying' = IF audioEnded THEN FALSE ELSE audioPlaying
                /\ UNCHANGED << chart, handVars, isCameraReady, audioTime,
                                audioEnded, pendingPlay >>

\* useFrame callback of GameScene (mounted once gameStatus is not LOADING),
\* with the render of App that follows it
Tick ==
    /\ gameStatus # "LOADING"
    /\ frameParity' = 1 - frameParity
    /\ IF gameStatus # "PLAYING"
       THEN UNCHANGED << chart, simVars, handVars, isCameraReady, appVars,
                         audioVars, pendingPlay, pendingEndGame, log >>
       ELSE IF audioEnded
       THEN \* onSongEnd: endGame(true)
            /\ gameStatus' = "VICTORY"
            /\ audioPlaying' = FALSE
            /\ UNCHANGED << chart, simVars, handVars, isCameraReady, score,
                            combo, multiplier, health, audioTime, audioEnded,
                            pendingPlay, pendingEndGame, log >>
       ELSE LET f == Frame(chart, hit, missed, hitTime, activeNotesRef,
                           nextNoteIndexRef, audioTime, handPositionsRef)
            IN  /\ hit' = f.hit
                /\ missed' = f.missed
                /\ hitTime' = f.hitTime
                /\ activeNotesRef' = f.active
                /\ nextNoteIndexRef' = f.next
                /\ log' = log \o Stamp(f.events, NextBatch, nextNoteIndexRef)
                /\ \E eager \in EagerChoices(combo) :
                     LET a == ApplyEvents(f.events, score, combo, multiplier,
                                          health, eager)
                     IN  /\ score' = a.score
                         /\ combo' = a.combo
                         /\ multiplier' = a.multiplier
                         /\ health' = a.health
                         /\ pendingEndGame' = pendingEndGame + a.timers
                /\ UNCHANGED << chart, handVars, isCameraReady, gameStatus,
                                audioVars, pendingPlay >>

\* the deferred endGame(false) of handleNoteMiss.  audio.pause() rejects the
\* play promises still pending (the catch of startGame changes no state).
FireEndGame ==
    /\ pendingEndGame > 0
    /\ pendingEndGame' = pendingEndGame - 1
    /\ gameStatus' = "GAME_OVER"
    /\ audioPlaying' = FALSE
    /\ pendingPlay' = 0
    /\ UNCHANGED << chart, simVars, handVars, isCameraReady, score, combo,
                    multiplier, health, audioTime, audioEnded, frameParity, log >>

\* the button of the end screen: setGameStatus(IDLE)
Restart ==
    /\ gameStatus \in { "GAME_OVER", "VICTORY" }
    /\ gameStatus' = "IDLE"
    /\ UNCHANGED << chart, simVars, handVars, isCameraReady, score, combo,
                    multiplier, health, audioVars, pendingPlay, pendingEndGame,
                    frameParity, log >>

Next ==
    \/ CameraReady
    \/ LoadingEffect
    \/ predictWebcam
    \/ startGame
    \/ PlayResolved
    \/ PlayRejected
    \/ AudioAdvance
    \/ AudioEnd
    \/ Tick
    \/ FireEndGame
    \/ Restart

Spec == Init /\ [][Next]_vars

\* ------------------------------------------------- the handlers on their own
\* A second specification for what the App handlers do with the events of a
\* frame, whatever the geometry that produced them: a frame resolves the next
\* notes of a long chart (at most MaxBatch of them, last note first, as the
\* note loop walks the active list) with any outcome.  The flags of the notes
\* and the active list are left out of it; the cursor counts the notes used.
ChartRun == [i \in 1..MaxNotes |-> Note(i, 1, 0, "left", ANY)]

Outcomes ==
    { [kind |-> "hit", goodCut |-> TRUE],
      [kind |-> "hit", goodCut |-> FALSE],
      [kind |-> "miss", goodCut |-> FALSE] }

InitScore == InitWith(ChartRun)

NoteEvents ==
    /\ gameStatus = "PLAYING"
    /\ \E len \in 1..MaxBatch :
         /\ nextNoteIndexRef + len <= Len(chart)
         /\ nextNoteIndexRef' = nextNoteIndexRef + len
         /\ \E outcomes \in [1..len -> Outcomes],
               eager \in EagerChoices(combo) :
              LET events == [k \in 1..len |->
                               [note |-> nextNoteIndexRef + len + 1 - k,
                                kind |-> outcomes[k].kind,
                                goodCut |-> outcomes[k].goodCut]]
                  a == ApplyEvents(events, score, combo, multiplier, health,
                                   eager)
              IN  /\ score' = a.score
                  /\ combo' = a.combo
                  /\ multiplier' = a.multiplier
                  /\ health' = a.health
                  /\ pendingEndGame' = pendingEndGame + a.timers
    /\ frameParity' = 1 - frameParity
    /\ UNCHANGED << chart, hit, missed, hitTime, activeNotesRef, handVars,
                    isCameraReady, gameStatus, audioVars, pendingPlay, log >>

NextScore ==
    \/ CameraReady
    \/ LoadingEffect
    \/ startGame
    \/ PlayResolved
    \/ PlayRejected
    \/ NoteEvents
    \/ FireEndGame
    \/ Restart

SpecScore == InitScore /\ [][NextScore]_vars

\* ------------------------------------------------ the estimator on its own
\* A third specification for processResults alone: once the camera is
\* ready, up to MaxSamples detection results of any shape are processed, at
\* any of the elapsed times of SampleDeltas.
\* Beside the results of FrameResults: the right hand alone, a detection
\* without handedness, two detections labelled for the same side, and a
\* hand with three of its four fingers curled.
HandSamples ==
    FrameResults \cup
    { << Hand("Right", 500, 300, FALSE) >>,
      << Hand(NoLabel, 500, 500, TRUE) >>,
      << [categoryName |-> "Right", landmarks |-> LandmarksThree(500, 500)] >>,
      << Hand("Left", 200, 500, FALSE), Hand("Left", 500, 500, TRUE) >> }

\* an elapsed time at the limit of the deltaTime > 0.001 test, and a usual one
SampleDeltas == { 1, 50 }

InitHandsOnly == InitWith(ChartPair)

\* predictWebcam with a detection that returned: lastResultsRef and
\* processResults
processSample ==
    /\ isCameraReady
    /\ frames < MaxSamples
    /\ \E results \in HandSamples, d \in SampleDeltas :
         /\ lastResultsRef' = << results >>
         /\ handPositionsRef' =
              processResults(handPositionsRef, results,
                             handPositionsRef.lastTimestamp + d)
    /\ frames' = frames + 1
    /\ UNCHANGED << chart, simVars, isCameraReady, appVars, audioVars,
                    pendingPlay, pendingEndGame, frameParity, log, hookVars >>

NextHands ==
    \/ CameraReady
    \/ processSample

SpecHands == InitHandsOnly /\ [][NextHands]_vars

\* ------------------------------------------------------ a session that runs
\* A specification with the scheduling the browser gives: animation frames
\* keep coming, the audio element keeps playing while it is not paused and
\* ends, timers fire, effects run and play() settles.  What the player does
\* (the start and restart buttons) and what the camera shows are left free.
\* The chart has seven notes at one time and an eighth a tenth of a second
\* later: the misses of the seven use up the health of a session.
ChartAttrition ==
    [i \in 1..8 |-> IF i <= 7 THEN Note(1, 1, 0, "left", ANY)
                              ELSE Note(3, 1, 0, "left", ANY)]

InitAttrition == InitWith(ChartAttrition)

\* Weak fairness of Tick, written out: Tick is enabled exactly when the
\* phase is not LOADING, and the steps that change frameParity are the Tick
\* steps.
TickFairness ==
    \/ []<>(gameStatus = "LOADING")
    \/ []<><< frameParity' # frameParity >>_vars

Fairness ==
    /\ WF_vars(CameraReady)
    /\ WF_vars(LoadingEffect)
    /\ WF_vars(PlayResolved)
    /\ WF_vars(AudioAdvance)
    /\ WF_vars(AudioEnd)
    /\ WF_vars(FireEndGame)
    /\ TickFairness

SpecFair == InitAttrition /\ [][Next]_vars /\ Fairness

\* ------------------------------------------------- the effect of useMediaPipe
\* A fourth specification unfolds what Spec takes as the one step CameraReady:
\* the runs of the effect (under StrictMode the effect is mounted, cleaned up
\* and mounted again; a cleanup may come at any point of a run's setup), the
\* awaits of setupMediaPipe and startCamera, the loadeddata event, the
\* detection loop with its animation frames, and the part of App that waits
\* for the camera.  The video element stays in the document (videoRef.current
\* is not null).
gameVars == << chart, simVars, appVars, audioVars, pendingPlay, pendingEndGame,
               frameParity, log >>

InitHook == InitWith(ChartPair)

\* useEffect runs: isActive = true; setupMediaPipe() up to its first await
mountEffect ==
    \E i \in Mounts :
        /\ setup[i] = "unmounted"
        /\ \A j \in Mounts : j < i => (setup[j] # "unmounted" /\ ~isActive[j])
        /\ isActive' = [isActive EXCEPT ![i] = TRUE]
        /\ setup' = [setup EXCEPT ![i] = "resolving"]
        /\ UNCHANGED << gameVars, handPositionsRef, lastResultsRef, frames,
                        isCameraReady, landmarkerRef, landmarkers, streams,
                        srcObject, onloadeddata, loadedPending, requestRef,
                        rafQueue, error >>

\* the cleanup returned by the effect
cleanup ==
    \E i \in Mounts :
        /\ isActive[i]
        /\ isActive' = [isActive EXCEPT ![i] = FALSE]
        /\ rafQueue' = SelectSeq(rafQueue, LAMBDA e : e.id # requestRef)
        /\ landmarkers' = IF landmarkerRef # 0
                          THEN [landmarkers EXCEPT ![landmarkerRef] = "closed"]
                          ELSE landmarkers
        /\ streams' = IF srcObject # 0
                      THEN [streams EXCEPT ![srcObject] = "stopped"]
                      ELSE streams
        /\ UNCHANGED << gameVars, handPositionsRef, lastResultsRef, frames,
                        isCameraReady, setup, landmarkerRef, srcObject,
                        onloadeddata, loadedPending, requestRef, error >>

\* FilesetResolver.forVisionTasks resolved
filesetResolved ==
    \E i \in Mounts :
        /\ setup[i] = "resolving"
        /\ setup' = [setup EXCEPT
                        ![i] = IF isActive[i] THEN "creating" ELSE "dropped"]
        /\ UNCHANGED << gameVars, handPositionsRef, lastResultsRef, frames,
                        isCameraReady, isActive, landmarkerRef, landmarkers,
                        streams, srcObject, onloadeddata, loadedPending,
                        requestRef, rafQueue, error >>

\* HandLandmarker.createFromOptions resolved
landmarkerCreated ==
    \E i \in Mounts :
        /\ setup[i] = "creating"
        /\ IF isActive[i]
           THEN /\ landmarkers' = [landmarkers EXCEPT ![i] = "open"]
                /\ landmarkerRef' = i
                /\ setup' = [setup EXCEPT ![i] = "camera"]
           ELSE /\ landmarkers' = [landmarkers EXCEPT ![i] = "closed"]
                /\ setup' = [setup EXCEPT ![i] = "dropped"]
                /\ UNCHANGED landmarkerRef
        /\ UNCHANGED << gameVars, handPositionsRef, lastResultsRef, frames,
                        isCameraReady, isActive, streams, srcObject,
                        onloadeddata, loadedPending, requestRef, rafQueue,
                        error >>

\* forVisionTasks or createFromOptions rejected: the catch of setupMediaPipe
setupRejected ==
    \E i \in Mounts :
        /\ setup[i] \in { "resolving", "creating" }
        /\ setup' = [setup EXCEPT ![i] = "failed"]
        /\ error' = "Failed to load hand tracking"
        /\ UNCHANGED << gameVars, handPositionsRef, lastResultsRef, frames,
                        isCameraReady, isActive, landmarkerRef, landmarkers,
                        streams, srcObject, onloadeddata, loadedPending,
                        requestRef, rafQueue >>

\* getUserMedia resolved with a stream
streamAcquired ==
    \E i \in Mounts :
        /\ setup[i] = "camera"
        /\ streams' = [streams EXCEPT ![i] = "live"]
        /\ IF isActive[i]
           THEN /\ srcObject' = i
                /\ onloadeddata' = i
                /\ loadedPending' = TRUE
                /\ setup' = [setup EXCEPT ![i] = "loading"]
           ELSE /\ setup' = [setup EXCEPT ![i] = "dropped"]
                /\ UNCHANGED << srcObject, onloadeddata, loadedPending >>
        /\ UNCHANGED << gameVars, handPositionsRef, lastResultsRef, frames,
                        isCameraReady, isActive, landmarkerRef, landmarkers,
                        requestRef, rafQueue, error >>

\* getUserMedia rejected: the catch of startCamera
cameraDenied ==
    \E i \in Mounts :
        /\ setup[i] = "camera"
        /\ setup' = [setup EXCEPT ![i] = "failed"]
        /\ error' = "Could not access camera."
        /\ UNCHANGED << gameVars, handPositionsRef, lastResultsRef, frames,
                        isCameraReady, isActive, landmarkerRef, landmarkers,
                        streams, srcObject, onloadeddata, loadedPending,
                        requestRef, rafQueue >>

\* faulty variant: a detection that throws is taken as a result with no hand
predictWebcamRunClears(i, queue) ==
    IF landmarkerRef = 0 \/ ~isActive[i]
    THEN /\ rafQueue' = queue
         /\ UNCHANGED << handPositionsRef, lastResultsRef, frames, requestRef >>
    ELSE /\ requestRef < MaxRaf
         /\ \/ /\ handPositionsRef' =
                      processResults(handPositionsRef, << >>,
                                     handPositionsRef.lastTimestamp)
               /\ UNCHANGED << lastResultsRef, frames >>
            \/ \E results \in FrameResults, d \in FrameDeltas :
                 /\ lastResultsRef' = << results >>
                 /\ handPositionsRef' =
                      processResults(handPositionsRef, results,
                                     handPositionsRef.lastTimestamp + d)
                 /\ frames' = frames + 1
         /\ requestRef' = requestRef + 1
         /\ rafQueue' = Append(queue, [id |-> requestRef + 1, inst |-> i])

\* faulty variant: the catch requests an animation frame of its own, beside
\* the request at the end of predictWebcam
predictWebcamRunTwice(i, queue) ==
    IF landmarkerRef = 0 \/ ~isActive[i]
    THEN /\ rafQueue' = queue
         /\ UNCHANGED << handPositionsRef, lastResultsRef, frames, requestRef >>
    ELSE /\ requestRef < MaxRaf
         /\ \/ /\ UNCHANGED << handPositionsRef, lastResultsRef, frames >>
               /\ requestRef' = requestRef + 1
               /\ rafQueue' = queue \o << [id |-> requestRef, inst |-> i],
                                          [id |-> requestRef + 1, inst |-> i] >>
            \/ \E results \in FrameResults, d \in FrameDeltas :
                 /\ lastResultsRef' = << results >>
                 /\ handPositionsRef' =
                      processResults(handPositionsRef, results,
                                     handPositionsRef.lastTimestamp + d)
                 /\ frames' = frames + 1
                 /\ requestRef' = requestRef + 1
                 /\ rafQueue' = Append(queue, [id |-> requestRef + 1,
                                               inst |-> i])

\* predictWebcam called by run i of the effect, queue being the animation
\* frame callbacks left to run.  After loadeddata the video has its size.
predictWebcamRun(i, queue) ==
    IF landmarkerRef = 0 \/ ~isActive[i]
    THEN /\ rafQueue' = queue
         /\ UNCHANGED << handPositionsRef, lastResultsRef, frames, requestRef >>
    ELSE /\ requestRef < MaxRaf
         /\ \/ UNCHANGED << handPositionsRef, lastResultsRef, frames >>
            \/ \E results \in FrameResults, d \in FrameDeltas :
                 /\ lastResultsRef' = << results >>
                 /\ handPositionsRef' =
                      processResults(handPositionsRef, results,
                                     handPositionsRef.lastTimestamp + d)
                 /\ frames' = frames + 1
         /\ requestRef' = requestRef + 1
         /\ rafQueue' = Append(queue, [id |-> requestRef + 1, inst |-> i])

\* faulty variant: the loadeddata handler without its isActive test
loadeddataUnguarded ==
    /\ loadedPending
    /\ loadedPending' = FALSE
    /\ setup' = [setup EXCEPT ![onloadeddata] = "loaded"]
    /\ isCameraReady' = TRUE
    /\ predictWebcamRun(onloadeddata, rafQueue)
    /\ UNCHANGED << gameVars, isActive, landmarkerRef, landmarkers, streams,
                    srcObject, onloadeddata, error >>

\* the loadeddata event of the video: the handler set by startCamera
loadeddata ==
    /\ loadedPending
    /\ loadedPending' = FALSE
    /\ setup' = [setup EXCEPT ![onloadeddata] = "loaded"]
    /\ IF isActive[onloadeddata]
       THEN /\ isCameraReady' = TRUE
            /\ predictWebcamRun(onloadeddata, rafQueue)
       ELSE UNCHANGED << isCameraReady, handPositionsRef, lastResultsRef,
                         frames, requestRef, rafQueue >>
    /\ UNCHANGED << gameVars, isActive, landmarkerRef, landmarkers, streams,
                    srcObject, onloadeddata, error >>

\* an animation frame: the oldest requested callback runs
animationFrame ==
    /\ rafQueue # << >>
    /\ predictWebcamRun(Head(rafQueue).inst, Tail(rafQueue))
    /\ UNCHANGED << gameVars, isCameraReady, isActive, setup, landmarkerRef,
                    landmarkers, streams, srcObject, onloadeddata,
                    loadedPending, error >>

NextHook ==
    \/ mountEffect
    \/ cleanup
    \/ filesetResolved
    \/ landmarkerCreated
    \/ setupRejected
    \/ streamAcquired
    \/ cameraDenied
    \/ loadeddata
    \/ animationFrame
    \/ LoadingEffect
    \/ startGame
    \/ PlayResolved

SpecHook == InitHook /\ [][NextHook]_vars


\* =========================================================================
\* Properties
\* =========================================================================
Notes == 1..Len(chart)
EventsOf(n) == { k \in 1..Len(log) : log[k].note = n }

\* the step is a run of the useFrame callback that reaches the note loop
FrameStep ==
    /\ frameParity' # frameParity
    /\ gameStatus = "PLAYING"
    /\ ~audioEnded

\* the events the step emitted
Emitted == SubSeq(log', Len(log) + 1, Len(log'))

\* the step is the reset of startGame, which begins a session
SessionStart == pendingPlay' = pendingPlay + 1

\* C1: within a session no note is both hit and missed and at most one event
\* (hit or miss) is emitted for a note; a flag that is set stays set, and the
\* other flag stays unset, until startGame resets them for the next session.
C1_NoDoubleResolution ==
    /\ [](\A n \in Notes :
            /\ ~(hit[n] /\ missed[n])
            /\ Cardinality(EventsOf(n)) <= 1)
    /\ [][\A n \in Notes :
            (hit[n] \/ missed[n]) /\ ~SessionStart
                => hit'[n] = hit[n] /\ missed'[n] = missed[n]]_vars

\* a session in which one note was hit and a note not before it in the
\* chart was missed in a later frame
C1_Witness ==
    \E n, m \in Notes :
        /\ hit[n] /\ missed[m] /\ n < m
        /\ \E j \in EventsOf(n), k \in EventsOf(m) : log[j].batch < log[k].batch


Range(seq) == { seq[k] : k \in 1..Len(seq) }

\* in a frame step: note n is on the active list when the note loop runs
\* (it was there before, or the activation loop of this frame pushed it)
Judged(n) ==
    \/ n \in Range(activeNotesRef)
    \/ nextNoteIndexRef < n /\ n <= nextNoteIndexRef'
Unresolved(n) == ~hit[n] /\ ~missed[n]
HitEmitted(n) ==
    \E k \in 1..Len(Emitted) : Emitted[k].note = n /\ Emitted[k].kind = "hit"
MissEmitted(n) ==
    \E k \in 1..Len(Emitted) : Emitted[k].note = n /\ Emitted[k].kind = "miss"

\* position of the hand a note requires, read off the hand state
RequiredHand(n) ==
    IF chart[n].type = "left" THEN handPositionsRef.left
    ELSE handPositionsRef.right

\* note n can be hit at the frame's time: depth strictly between
\* PLAYER_Z - 1.5 and PLAYER_Z + 1.0, required hand defined and at distance
\* < 0.8 from (lane x, layer y, depth)
Hittable(n) ==
    LET z == currentZ(chart[n], audioTime)
    IN  /\ z > PLAYER_Z - 150
        /\ z < PLAYER_Z + 100
        /\ RequiredHand(n) # Null
        /\ DistanceSq(RequiredHand(n),
                      << LANE_X_POSITIONS[chart[n].lineIndex + 1],
                         LAYER_Y_POSITIONS[chart[n].lineLayer + 1], z >>) < 6400

\* C2: a frame emits onNoteHit for a note exactly when the note is active and
\* unresolved, its depth is strictly inside the judgement window, the position
\* of its required hand is defined and that hand is closer than 0.8 to the
\* note; the note is then marked hit in that frame.
C2_HitExactlyWhenInReach ==
    [][FrameStep =>
         \A n \in Notes :
            /\ HitEmitted(n) <=> (Judged(n) /\ Unresolved(n) /\ Hittable(n))
            /\ hit'[n] <=> (hit[n] \/ HitEmitted(n))]_vars

\* a left-hand note was hit in the frame just run while no right hand is seen
C2_Witness ==
    \E n \in Notes :
        /\ hit[n] /\ hitTime[n] = audioTime /\ EventsOf(n) # {}
        /\ chart[n].type = "left"
        /\ handPositionsRef.left # Null
        /\ handPositionsRef.right = Null

NewlyActivated(n) == nextNoteIndexRef < n /\ n <= nextNoteIndexRef'
EventsEmittedFor(n) == { k \in 1..Len(Emitted) : Emitted[k].note = n }

\* C3: within a frame the activation loop runs before the note loop, and for
\* each note the miss test comes before the hit test: a note activated in a
\* frame is missed or hit in that same frame when its depth calls for it, and
\* a note beyond the miss line is marked missed and not hit in that frame.
C3_TickOrder ==
    [][FrameStep =>
         \A n \in Notes :
            /\ (NewlyActivated(n) /\ Unresolved(n)
                    /\ currentZ(chart[n], audioTime) > MISS_Z)
                 => missed'[n] /\ MissEmitted(n)
            /\ (NewlyActivated(n) /\ Unresolved(n) /\ Hittable(n))
                 => hit'[n] /\ HitEmitted(n)
            /\ (Judged(n) /\ Unresolved(n)
                    /\ currentZ(chart[n], audioTime) > MISS_Z)
                 => missed'[n] /\ ~hit'[n] /\ ~HitEmitted(n)]_vars

\* every note of the chart was activated and missed by one and the same
\* frame, with the left hand in sight
C3_Witness ==
    /\ Len(log) = Len(chart)
    /\ \A k \in 1..Len(log) :
          log[k].fresh /\ log[k].kind = "miss" /\ log[k].batch = log[1].batch
    /\ handPositionsRef.left # Null

\* C4: in a frame at time t an active unresolved note is marked missed exactly
\* when its depth exceeds MISS_Z, i.e. t > scheduledTime + MISS_Z / NOTE_SPEED;
\* it then leaves the active list and exactly one onNoteMiss is emitted for
\* it; a frame that only misses k notes lowers health by 15 each, down to 0.
C4_MissExactlyPastMissLine ==
    [][FrameStep =>
         /\ \A n \in Notes :
              /\ (Judged(n) /\ Unresolved(n))
                   => (missed'[n] <=>
                         (audioTime - chart[n].time) * NOTE_SPEED
                            > MISS_Z * TimeUnitsPerSec)
              /\ MissEmitted(n) <=> (missed'[n] /\ ~missed[n])
              /\ (missed'[n] /\ ~missed[n])
                   => /\ Judged(n) /\ Unresolved(n)
                      /\ n \notin Range(activeNotesRef')
                      /\ Cardinality(EventsEmittedFor(n)) = 1
         /\ (\A k \in 1..Len(Emitted) : Emitted[k].kind = "miss")
              => health' = Max(0, health - 15 * Len(Emitted))]_vars

\* a left-hand note ended as the one miss of the session with no left hand
\* seen, and health went from 100 to 85
C4_Witness ==
    /\ Len(log) = 1
    /\ log[1].kind = "miss"
    /\ chart[log[1].note].type = "left"
    /\ missed[log[1].note]
    /\ handPositionsRef.left = Null
    /\ health = 85

NoDuplicates(seq) ==
    \A j, k \in 1..Len(seq) : j # k => seq[j] # seq[k]

\* C5: a frame at time t activates a note only when scheduledTime minus the
\* lookahead is at most t; after its activation loop every such note of the
\* (time-sorted) chart is below the cursor; a note enters the active list
\* only as it passes the cursor, so at most once.
C5_Activation ==
    /\ [](/\ NoDuplicates(activeNotesRef)
          /\ \A n \in Range(activeNotesRef) : n <= nextNoteIndexRef)
    /\ [][/\ \A n \in Range(activeNotesRef') \ Range(activeNotesRef) :
                FrameStep /\ NewlyActivated(n)
          /\ FrameStep =>
               /\ \A n \in Notes :
                    NewlyActivated(n)
                       => chart[n].time - spawnAheadTime <= audioTime
               /\ \A n \in Notes :
                    chart[n].time - spawnAheadTime <= audioTime
                       => n <= nextNoteIndexRef'
               /\ \A n \in Notes :
                    NewlyActivated(n) => n \in Range(activeNotesRef')
                                           \/ hit'[n] \/ missed'[n]]_vars

\* the third note of a chart was activated by a frame at exactly its
\* scheduled time minus the lookahead
C5_Witness ==
    /\ Len(chart) = 3
    /\ nextNoteIndexRef = 3
    /\ 3 \in Range(activeNotesRef)
    /\ chart[3].time - spawnAheadTime = audioTime
    /\ gameStatus = "PLAYING"

\* C6: the cursor never decreases; a frame whose time is lower than that of
\* an earlier frame does not rewind it, does not activate again a note below
\* it and does not clear a hit or missed flag.
C6_CursorMonotone ==
    [][/\ nextNoteIndexRef' >= nextNoteIndexRef
       /\ FrameStep =>
            \A n \in Notes :
               /\ n <= nextNoteIndexRef
                    => n \notin Range(activeNotesRef') \ Range(activeNotesRef)
               /\ hit[n] => hit'[n]
               /\ missed[n] => missed'[n]]_vars

\* a frame ran, and emitted an event, at a time at which the last activated
\* note is not due yet: the playback time had moved backward
C6_Witness ==
    /\ gameStatus = "PLAYING"
    /\ nextNoteIndexRef = Len(chart)
    /\ chart[nextNoteIndexRef].time - spawnAheadTime > audioTime
    /\ log # << >>

Ascending(seq) ==
    \A j, k \in 1..Len(seq) : j < k => seq[j] < seq[k]

Step(n) ==
    IF n >= 31 THEN 8 ELSE IF n >= 21 THEN 4 ELSE IF n >= 11 THEN 2 ELSE 1

\* a frame of SpecScore that emitted one event, a good hit
OneGoodHit ==
    /\ gameStatus = "PLAYING"
    /\ frameParity' # frameParity
    /\ nextNoteIndexRef' = nextNoteIndexRef + 1
    /\ combo' = combo + 1

\* C9: a good hit increments the combo, the multiplier is recomputed from the
\* incremented combo, and the score grows by 150 times that recomputed
\* multiplier: the hit that brings the combo to 11 is scored with 2x.
C9_ScoreUsesNewMultiplier ==
    [][OneGoodHit =>
         /\ multiplier' = Step(combo')
         /\ score' = score + 150 * Step(combo')]_vars

\* C10: the multiplier is always the step function of the combo.
C10_MultiplierIsStepOfCombo ==
    multiplier = Step(combo)

\* a frame of SpecScore: the note loop handed some events to the handlers
EventFrame ==
    /\ gameStatus = "PLAYING"
    /\ frameParity' # frameParity
    /\ nextNoteIndexRef' > nextNoteIndexRef

\* ... exactly one event, and not a good hit: a bad hit or a miss
OneBadHitOrMiss ==
    /\ EventFrame
    /\ nextNoteIndexRef' = nextNoteIndexRef + 1
    /\ combo' # combo + 1

\* C11: a bad hit and a miss each reset combo to 0 and multiplier to 1 and
\* take 50 from the score, not below 0; a bad hit takes 5 from health and a
\* miss 15, not below 0.  Stated on the frames of SpecScore: a frame ends
\* with combo 0 exactly when its last event is a bad hit or a miss, and then
\* the multiplier is 1; a frame of one such event changes score and health
\* by the penalties.
C11_Penalties ==
    [][/\ (EventFrame /\ combo' = 0) => multiplier' = 1
       /\ OneBadHitOrMiss =>
            /\ combo' = 0
            /\ score' = Max(0, score - 50)
            /\ \/ health' = Max(0, health - 5)
               \/ health' = Max(0, health - 15)]_vars

\* C12: whatever the sequence of good hits, bad hits, misses and restarts,
\* health stays within 0..100 and the score is never negative.
C12_Clamped ==
    /\ 0 <= health
    /\ health <= 100
    /\ score >= 0

\* misses have brought health to 0 and the score is 0 with notes resolved
C12_Witness ==
    /\ gameStatus = "PLAYING"
    /\ nextNoteIndexRef >= 7
    /\ health = 0
    /\ score = 0

\* C13: whenever health reaches 0 while the phase is playing, through a miss
\* or through a bad hit, the phase then becomes game_over with no further
\* event needed.  The only thing that takes the phase to game_over is the
\* deferred endGame(false), so with health 0 during playing one must be
\* pending.
C13_HealthZeroEndsGame ==
    (gameStatus = "PLAYING" /\ health = 0) => pendingEndGame > 0

\* C14: the transition to game_over fires once per session: once the phase
\* has left playing no deferred endGame(false) is still pending, however
\* many misses at health 0 the session had.
C14_SingleGameOver ==
    gameStatus # "PLAYING" => pendingEndGame = 0

\* C15: once misses have brought health to 0 no further event is processed
\* in the session: a frame that starts with health 0 emits nothing, and a
\* frame that emits only misses stops at the miss that brings health to 0.
C15_NoEventsAfterHealthZero ==
    [][FrameStep =>
         /\ health = 0 => Len(Emitted) = 0
         /\ (Len(Emitted) > 0
               /\ \A k \in 1..Len(Emitted) : Emitted[k].kind = "miss")
              => health > 15 * (Len(Emitted) - 1)]_vars

PhaseEdges ==
    { << "LOADING", "IDLE" >>, << "IDLE", "PLAYING" >>,
      << "PLAYING", "VICTORY" >>, << "PLAYING", "GAME_OVER" >>,
      << "VICTORY", "IDLE" >>, << "GAME_OVER", "IDLE" >> }

\* C16: the phase changes only along loading->idle, idle->playing,
\* playing->victory, playing->game_over, victory->idle and game_over->idle.
C16_PhaseEdges ==
    [][gameStatus' # gameStatus
         => << gameStatus, gameStatus' >> \in PhaseEdges]_vars

\* an unresolved note on the active list that a frame at the current audio
\* time would mark missed
OverdueActive ==
    \E n \in Range(activeNotesRef) :
        Unresolved(n) /\ currentZ(chart[n], audioTime) > MISS_Z

\* C17: a frame callback run while the phase is not playing changes nothing
\* in the simulation: cursor, active list and the notes' hit, missed and
\* hitTime stay as they are and no onNoteHit, onNoteMiss or onSongEnd is
\* emitted (no event logged, no change of phase, score, combo, multiplier or
\* health).
C17_IdleTickNoOp ==
    [][(frameParity' # frameParity /\ gameStatus # "PLAYING")
         => /\ UNCHANGED simVars
            /\ UNCHANGED appVars
            /\ log' = log
            /\ pendingEndGame' = pendingEndGame]_vars

\* back in idle after a song that ended, with the audio still reporting
\* ended and an overdue note on the active list: frames run and do nothing
C17_Witness ==
    /\ gameStatus = "IDLE"
    /\ audioEnded
    /\ OverdueActive
    /\ frameParity = 1

\* C20: a frame during playing that finds the audio ended emits onSongEnd
\* and stops: the phase becomes victory, and the frame activates nothing,
\* misses nothing and hits nothing.
C20_SongEnd ==
    [][(frameParity' # frameParity /\ gameStatus = "PLAYING" /\ audioEnded)
         => /\ gameStatus' = "VICTORY"
            /\ UNCHANGED simVars
            /\ UNCHANGED << score, combo, multiplier, health >>
            /\ log' = log
            /\ pendingEndGame' = pendingEndGame]_vars

\* victory with an overdue note still unresolved on the active list and a
\* note of the chart that was due but never activated
C20_Witness ==
    /\ gameStatus = "VICTORY"
    /\ OverdueActive
    /\ nextNoteIndexRef < Len(chart)
    /\ chart[nextNoteIndexRef + 1].time - spawnAheadTime <= audioTime

\* a note was hit in an earlier session and a later startGame has cleared
\* its flag
FlagsClearedAgain ==
    \E n \in Notes : hitTime[n] # NoTime /\ ~hit[n] /\ ~missed[n]

\* C18: whenever the phase changes from idle to playing the camera is ready
\* and score = 0, combo = 0, multiplier = 1, health = 100, every note has hit
\* and missed unset and the audio clock is at 0; as long as the camera is not
\* ready nothing of this is touched and no play() is started.
C18_StartResets ==
    /\ [][(gameStatus = "IDLE" /\ gameStatus' = "PLAYING")
            => /\ isCameraReady
               /\ score' = 0 /\ combo' = 0 /\ multiplier' = 1 /\ health' = 100
               /\ \A n \in Notes : ~hit'[n] /\ ~missed'[n]
               /\ audioTime' = 0]_vars
    /\ [][~isCameraReady
            => UNCHANGED << score, combo, multiplier, health, hit, missed,
                            audioTime, pendingPlay, gameStatus >>]_vars

\* a second session has just begun: playing at audio time 0, with a note hit
\* in the session before whose flag is cleared
C18_Witness ==
    /\ gameStatus = "PLAYING"
    /\ audioTime = 0
    /\ log = << >>
    /\ FlagsClearedAgain

\* a step in which a play() promise of startGame is rejected
PlayFails == pendingPlay' < pendingPlay /\ ~audioPlaying'

\* C19: when audio.play() fails the phase does not become playing: it stays
\* idle (the step changes nothing but the pending promise), no note is
\* processed, and startGame can be triggered again.
C19_PlayFailure ==
    /\ []((gameStatus = "IDLE" /\ pendingPlay = 0) => ENABLED startGame)
    /\ [][PlayFails =>
            /\ gameStatus = "IDLE"
            /\ gameStatus' # "PLAYING"
            /\ pendingEndGame' = pendingEndGame => gameStatus' = "IDLE"
            /\ UNCHANGED simVars
            /\ UNCHANGED << score, combo, multiplier, health >>
            /\ log' = log]_vars

\* idle with no play() pending after a startGame that cleared the flag of a
\* note hit in the session before: the play() of that startGame failed
C19_Witness ==
    /\ gameStatus = "IDLE"
    /\ pendingPlay = 0
    /\ pendingEndGame = 0
    /\ FlagsClearedAgain

\* results holds a detection with a handedness that counts for the side
\* (right: categoryName 'Right'; left: any other categoryName)
DetectedFor(results, right) ==
    \E i \in 1..Len(results) :
        /\ results[i].categoryName # NoLabel
        /\ (results[i].categoryName = "Right") = right

\* the step processes a detection result
SampleStep == frames' = frames + 1

\* C22: after every processed detection result a side's position is defined
\* exactly when the result held a detection labelled for the side; without
\* one the position is absent and the grip false at once.
C22_AbsencePropagates ==
    [][SampleStep =>
         LET results == lastResultsRef'[1]
             h == handPositionsRef'
         IN  /\ (h.left # Null) <=> DetectedFor(results, FALSE)
             /\ (h.right # Null) <=> DetectedFor(results, TRUE)
             /\ ~DetectedFor(results, FALSE) => ~h.leftGripping
             /\ ~DetectedFor(results, TRUE) => ~h.rightGripping]_vars

\* the left hand was seen, then a result with the right hand alone: the left
\* position is absent although an earlier one is on record
C22_Witness ==
    /\ handPositionsRef.left = Null
    /\ handPositionsRef.lastLeft # Null
    /\ handPositionsRef.right # Null
    /\ ~handPositionsRef.leftGripping

\* C23: a side whose position is absent after two consecutive processed
\* results has the zero vector as velocity.
C23_VelocityZeroAfterAbsence ==
    [][SampleStep =>
         /\ (handPositionsRef.left = Null /\ handPositionsRef'.left = Null)
              => handPositionsRef'.leftVelocity = << 0, 0, 0 >>
         /\ (handPositionsRef.right = Null /\ handPositionsRef'.right = Null)
              => handPositionsRef'.rightVelocity = << 0, 0, 0 >>]_vars

\* the step is a run of predictWebcam that requested its next animation
\* frame without a result processed: detectForVideo threw
DetectionThrew == requestRef' # requestRef /\ frames' = frames

\* the callback requested last
LastRequested(queue) == queue[Len(queue)]

\* C24: when the detection call of a frame throws, the hand state (positions,
\* velocities, grips, last timestamp) and the last results are left as they
\* were, and predictWebcam has requested its next animation frame.
C24_ExceptionKeepsHandState ==
    [][DetectionThrew =>
         /\ handPositionsRef' = handPositionsRef
         /\ lastResultsRef' = lastResultsRef
         /\ rafQueue' # << >>
         /\ LastRequested(rafQueue').id = requestRef'
         /\ isActive[LastRequested(rafQueue').inst]]_vars

\* a hand is in sight, more runs of predictWebcam than results processed
\* (a detection threw), and the loop is scheduled
C24_Witness ==
    /\ handPositionsRef.left # Null
    /\ requestRef > frames
    /\ frames > 0
    /\ rafQueue # << >>

\* the awaits of a run's setup are over
SetupSettled(i) ==
    setup[i] \notin { "unmounted", "resolving", "creating", "camera" }

\* C25: for every run of the effect that was cleaned up, once its setup steps
\* are over the stream it acquired is stopped and the landmarker it created
\* is closed.
C25_ReleasedOnTeardown ==
    \A i \in Mounts :
        (SetupSettled(i) /\ ~isActive[i])
            => (streams[i] # "live" /\ landmarkers[i] # "open")

\* C26: a run of the effect that was cleaned up performs no detection,
\* updates no hand state and requests no animation frame; with every run
\* cleaned up nothing of the hook's output changes any more, whatever
\* callbacks were outstanding.
C26_StoppedAfterCleanup ==
    [][/\ requestRef' # requestRef
            => isActive[LastRequested(rafQueue').inst]
       /\ (\/ handPositionsRef' # handPositionsRef
           \/ lastResultsRef' # lastResultsRef
           \/ frames' # frames)
            => requestRef' # requestRef
       /\ ((\A i \in Mounts : ~isActive[i]) /\ isActive' = isActive)
            => /\ UNCHANGED << handPositionsRef, lastResultsRef, frames,
                               requestRef, isCameraReady >>
               /\ Len(rafQueue') <= Len(rafQueue)]_vars

\* the loadeddata event came after the cleanup of the run that set the
\* handler, and was ignored; the detection loop of an earlier state is gone
C26_Witness ==
    \E i \in Mounts :
        /\ ~isActive[i]
        /\ setup[i] = "loaded"
        /\ ~isCameraReady
        /\ requestRef = 0
        /\ rafQueue = << >>

CompleteUpdate ==
    LET s == handPositionsRef
        t == handPositionsRef'
        results == lastResultsRef'[1]
        deltaMs == t.lastTimestamp - s.lastTimestamp
        l == UpdateSide(RawSide(results, FALSE, Len(results)),
                        s.left, s.leftVelocity, s.lastLeft, deltaMs)
        r == UpdateSide(RawSide(results, TRUE, Len(results)),
                        s.right, s.rightVelocity, s.lastRight, deltaMs)
    IN  /\ t.left = l.pos /\ t.leftVelocity = l.vel
        /\ t.leftGripping = l.grip /\ t.lastLeft = l.last
        /\ t.right = r.pos /\ t.rightVelocity = r.vel
        /\ t.rightGripping = r.grip /\ t.lastRight = r.last

\* C29: however detection runs and frames of the simulation alternate, the
\* hand state changes only by whole updates (both sides, every field, from
\* one result), a frame of the simulation writes none of it, and the
\* position and the velocity a frame judges a hit with are those of that
\* state.
C29_TickReadsCompleteUpdate ==
    [][/\ (handPositionsRef' # handPositionsRef \/ frames' # frames)
            => (frames' = frames + 1 /\ CompleteUpdate)
       /\ frameParity' # frameParity
            => (handPositionsRef' = handPositionsRef
                /\ lastResultsRef' = lastResultsRef)
       /\ FrameStep =>
            \A k \in 1..Len(Emitted) :
               Emitted[k].kind = "hit" =>
                  /\ Hittable(Emitted[k].note)
                  /\ Emitted[k].goodCut =
                       GoodCut(chart[Emitted[k].note],
                               HandVelOf(chart[Emitted[k].note],
                                         handPositionsRef))]_vars

\* a frame has judged a good cut: position and velocity of a hand state that
\* two updates built
C29_Witness ==
    /\ gameStatus = "PLAYING"
    /\ frames >= 2
    /\ lastResultsRef # << >>
    /\ \E k \in 1..Len(log) : log[k].kind = "hit" /\ log[k].goodCut

\* neither hand has a position
NoHands == handPositionsRef.left = Null /\ handPositionsRef.right = Null

\* C21 as stated: with both hands absent throughout, every note of the chart
\* is marked missed at some time of a session that is playing, unless the
\* song ends first.
C21_AllNotesMissed ==
    []NoHands =>
        \A n \in 1..Len(ChartAttrition) :
            (gameStatus = "PLAYING") ~> (missed[n] \/ audioEnded)

\* C21: a frame that runs with both hands absent hits no note and marks as
\* missed every active unresolved note beyond the miss line; outside of
\* playing no note is marked; and a session that is playing comes to its end
\* (game over once the misses have used up the health, or the end of the
\* song), whether or not every note was missed by then.
C21_MissesUntilSessionEnds ==
    /\ [][(FrameStep /\ NoHands) =>
            /\ \A k \in 1..Len(Emitted) : Emitted[k].kind = "miss"
            /\ \A n \in Notes :
                 (Judged(n) /\ Unresolved(n)
                    /\ currentZ(chart[n], audioTime) > MISS_Z)
                    => missed'[n]]_vars
    /\ [][gameStatus # "PLAYING" =>
            \A n \in Notes : missed'[n] => missed[n]]_vars
    /\ (gameStatus = "PLAYING") ~> (gameStatus # "PLAYING")

\* no hand was ever seen, seven notes were missed and the game is over with
\* the eighth note unresolved
C21_Witness ==
    /\ gameStatus = "GAME_OVER"
    /\ frames = 0
    /\ health = 0
    /\ \A n \in 1..7 : missed[n]
    /\ ~missed[8] /\ ~hit[8]
    /\ \A k \in 1..Len(log) : log[k].kind = "miss"

CurledFingers(landmarks) ==
    Cardinality({ f \in 1..4 :
        landmarks[FingerJoints[f].tip][2]
          > landmarks[FingerJoints[f].pip][2] + CurlMargin })

\* the detection of a result that processResults uses for a side: the last
\* one labelled for it
UsedFor(results, right, i) ==
    /\ results[i].categoryName # NoLabel
    /\ (results[i].categoryName = "Right") = right
    /\ \A j \in (i + 1)..Len(results) :
          \/ results[j].categoryName = NoLabel
          \/ (results[j].categoryName = "Right") # right

\* C31: the grip flag the estimator stores for a side is true exactly when
\* at least three of the four non-thumb fingers of the detection used for
\* the side are curled, and it is the classification the webcam preview
\* draws for the same landmark set.
C31_GripMajority ==
    lastResultsRef # << >> =>
      LET results == lastResultsRef[1]
      IN  \A i \in 1..Len(results) :
            LET lm == results[i].landmarks
            IN  /\ UsedFor(results, FALSE, i) =>
                      /\ handPositionsRef.leftGripping
                            = (CurledFingers(lm) >= 3)
                      /\ handPositionsRef.leftGripping = checkGripPreview(lm)
                /\ UsedFor(results, TRUE, i) =>
                      /\ handPositionsRef.rightGripping
                            = (CurledFingers(lm) >= 3)
                      /\ handPositionsRef.rightGripping = checkGripPreview(lm)

\* the mapped fingertip of the detection a result holds for a side
RawPos(results, right) == RawSide(results, right, Len(results)).pos

\* C32: when a processed result holds a detection for a side, the side's
\* new position is the raw mapped fingertip and its velocity is left as it
\* was if the side had no position before the result (first detection ever
\* or first after an absence), and the blend previous + 0.6 * (raw -
\* previous) if it had one.
C32_RawFirstThenBlend ==
    [][SampleStep =>
         LET results == lastResultsRef'[1]
             s == handPositionsRef
             h == handPositionsRef'
         IN  /\ DetectedFor(results, FALSE) =>
                   IF s.left = Null
                   THEN /\ h.left = RawPos(results, FALSE)
                        /\ h.leftVelocity = s.leftVelocity
                   ELSE h.left = lerpVectors(s.left, RawPos(results, FALSE))
             /\ DetectedFor(results, TRUE) =>
                   IF s.right = Null
                   THEN /\ h.right = RawPos(results, TRUE)
                        /\ h.rightVelocity = s.rightVelocity
                   ELSE h.right = lerpVectors(s.right, RawPos(results, TRUE))]_vars

\* the left hand was seen moving, lost, and is back: its position is the raw
\* fingertip of the last result and its velocity is still the one computed
\* before the absence
C32_Witness ==
    /\ lastResultsRef # << >>
    /\ frames >= 3
    /\ handPositionsRef.left # Null
    /\ handPositionsRef.left = RawPos(lastResultsRef[1], FALSE)
    /\ handPositionsRef.lastLeft = handPositionsRef.left
    /\ handPositionsRef.leftVelocity # << 0, 0, 0 >>

\* C33: a processed result rewrites a side's velocity only when the side
\* had a position before the result, the result holds a detection for it and
\* more than 0.001 s have passed since the result before; the velocity is
\* then (new position - previous position) / elapsed time, and in every
\* other case it is left as it was.
C33_VelocityRewrite ==
    [][SampleStep =>
         LET results == lastResultsRef'[1]
             s == handPositionsRef
             h == handPositionsRef'
             deltaMs == h.lastTimestamp - s.lastTimestamp
         IN  /\ IF s.left # Null /\ DetectedFor(results, FALSE)
                     /\ deltaMs > MinDeltaMs
                 THEN h.leftVelocity = Velocity(h.left, s.left, deltaMs)
                 ELSE h.leftVelocity = s.leftVelocity
             /\ IF s.right # Null /\ DetectedFor(results, TRUE)
                     /\ deltaMs > MinDeltaMs
                 THEN h.rightVelocity = Velocity(h.right, s.right, deltaMs)
                 ELSE h.rightVelocity = s.rightVelocity]_vars

\* the last result moved the left hand (the position on record is the one
\* before the blend) and the velocity is still zero: the result came 0.001 s
\* after the one before
C33_Witness ==
    /\ handPositionsRef.left # Null
    /\ handPositionsRef.lastLeft # Null
    /\ handPositionsRef.lastLeft # handPositionsRef.left
    /\ handPositionsRef.leftVelocity = << 0, 0, 0 >>

\* C34: the depth of a note that the miss and hit tests use is a function
\* of the playback time and the note's scheduled time alone, PLAYER_Z -
\* (scheduledTime - t) * NOTE_SPEED: at the current playback time it has
\* that value for every note of the chart, it is PLAYER_Z at t =
\* scheduledTime and SPAWN_Z at t = scheduledTime - lookahead, and a note
\* that was hit had, at the playback time recorded for the hit, a depth
\* inside the hit window.
C34_DepthFromTime ==
    \A n \in 1..Len(chart) :
      LET note == chart[n]
      IN  /\ (PLAYER_Z - currentZ(note, audioTime)) * TimeUnitsPerSec
                = (note.time - audioTime) * NOTE_SPEED
          /\ currentZ(note, note.time) = PLAYER_Z
          /\ currentZ(note, note.time - spawnAheadTime) = SPAWN_Z
          /\ hit[n] => /\ currentZ(note, hitTime[n]) > PLAYER_Z - 150
                        /\ currentZ(note, hitTime[n]) < PLAYER_Z + 100

\* a playing session with a note hit at its scheduled time, at depth
\* PLAYER_Z, and a note on the active list at the spawn line
C34_Witness ==
    /\ gameStatus = "PLAYING"
    /\ \E n \in 1..Len(chart) :
          hit[n] /\ hitTime[n] = chart[n].time
    /\ \E i \in 1..Len(activeNotesRef) :
          currentZ(chart[activeNotesRef[i]], audioTime) = SPAWN_Z

\* C35: at the end of every tick of a session the active list holds exactly
\* the notes below the cursor that are neither hit nor missed, each once and
\* in chart order, and a note the tick hit has the playback time of the tick
\* as its hit timestamp.
C35_ActiveSet ==
    [][FrameStep =>
         /\ Range(activeNotesRef')
               = { n \in Notes : /\ n <= nextNoteIndexRef'
                                 /\ ~hit'[n] /\ ~missed'[n] }
         /\ NoDuplicates(activeNotesRef')
         /\ Ascending(activeNotesRef')
         /\ \A n \in Notes :
               (hit'[n] /\ ~hit[n]) => hitTime'[n] = audioTime]_vars

\* the step makes a session playing
BecomesPlaying == gameStatus # "PLAYING" /\ gameStatus' = "PLAYING"

\* C36: a restart re-arms the chart: whenever a session becomes playing, the
\* first one or one started after a victory or a game over, the cursor is
\* at the first note of the chart and the active list is empty, with every
\* note unresolved.
C36_RestartRearms ==
    [][BecomesPlaying =>
         /\ nextNoteIndexRef' = 0
         /\ activeNotesRef' = << >>
         /\ \A n \in Notes : ~hit'[n] /\ ~missed'[n]]_vars

\* C37: in every reachable state the phase game_over goes with health 0, and
\* the phase becomes game_over only from playing: a deferred endGame(false)
\* puts neither a later session, an idle screen nor a finished victory into
\* game_over.
C37_GameOverOnlyAtHealthZero ==
    /\ [](gameStatus = "GAME_OVER" => health = 0)
    /\ [][(gameStatus # "GAME_OVER" /\ gameStatus' = "GAME_OVER")
            => (gameStatus = "PLAYING" /\ health = 0)]_vars

=============================================================================
